---- MODULE Spec2Model ----
(***************************************************************************)
(* Model of the key-notation parser of src/config/keys/sequence.rs:        *)
(* Parser::new, Parser::parse, Parser::chord and Parser::chord_to_key.     *)
(*                                                                         *)
(* A notation string is a sequence of one-character strings; the Rust      *)
(* index chars[i] (0-based) is input[i + 1] here.  A Key is a record       *)
(* [key |-> KeyCode, modifiers |-> set of modifier names]; a KeyCode is a  *)
(* record [kind, arg] (KeyCode::Char(c) is [kind |-> "Char", arg |-> c],   *)
(* KeyCode::F(11) is [kind |-> "F", arg |-> "11"]).                        *)
(***************************************************************************)
EXTENDS Integers, Sequences, FiniteSets

\* input, idx, start : the fields of struct Parser (lines 16-18)
\* modifiers, seq     : the locals of Parser::parse (lines 30 and 32)
\* key, arm           : the value of `let key = match c` (lines 39-52) and
\*                      the arm that produced it ("char" or "chord")
\* open_count         : the local of Parser::chord (line 153)
\* pc                 : the position in new / parse / chord; "done", "err"
\*                      and "panic" are the three ways a parse ends
\* result             : what the caller gets: Ok(keys), an error (the
\*                      anyhow error of line 23 is named "EmptyInput", that
\*                      of line 139 "InvalidKeyName"), or an abort
VARIABLES input, idx, start, modifiers, seq, key, arm, open_count, pc, result

vars == <<input, idx, start, modifiers, seq, key, arm, open_count, pc, result>>

----------------------------------------------------------------------------
(* Bounds of the checked input space.                                      *)

\* longest string over BracketAlphabet
MaxLen == 6
\* longest string over ShortAlphabet
MaxShort == 4
\* most modifier prefixes written in a table chord
MaxPrefixes == 3
\* most modifier prefixes written in each chord of a chord pair
MaxPairPrefixes == 2

----------------------------------------------------------------------------
(* Values                                                                  *)

CONTROL == "CONTROL"
ALT == "ALT"
SHIFT == "SHIFT"
NONE == {}

Code(kind, arg) == [kind |-> kind, arg |-> arg]
Char(c) == Code("Char", c)
F(n) == Code("F", n)
Backspace == Code("Backspace", "")
Tab == Code("Tab", "")
BackTab == Code("BackTab", "")
Enter == Code("Enter", "")
Left == Code("Left", "")
Right == Code("Right", "")
Up == Code("Up", "")
Down == Code("Down", "")
Home == Code("Home", "")
End == Code("End", "")
PageUp == Code("PageUp", "")
PageDown == Code("PageDown", "")
Delete == Code("Delete", "")
Insert == Code("Insert", "")
Esc == Code("Esc", "")
Null == Code("Null", "")

Key(k, m) == [key |-> k, modifiers |-> m]

\* char::is_uppercase, on the ASCII letters the checked inputs use
UppercaseLetters ==
    {"A", "B", "C", "D", "E", "F", "G", "H", "I", "J", "K", "L", "M",
     "N", "O", "P", "Q", "R", "S", "T", "U", "V", "W", "X", "Y", "Z"}

is_uppercase(c) == c \in UppercaseLetters

\* usize::saturating_sub
saturating_sub(a, b) == IF a >= b THEN a - b ELSE 0

----------------------------------------------------------------------------
(* Parser::chord_to_key                                                    *)

\* lines 65-66: drop the surrounding '<' and '>'
StripDelimiters(chars) ==
    LET skip_first == SubSeq(chars, 2, Len(chars))
    IN  SubSeq(skip_first, 1, saturating_sub(Len(skip_first), 1))

PrefixModifier(c) ==
    CASE c = "C" -> CONTROL
      [] c = "A" -> ALT
      [] c = "S" -> SHIFT

\* the prefix loop with `modifiers =` for `modifiers |=`
RECURSIVE DecodePrefixes_Assign(_, _, _)
DecodePrefixes_Assign(skip_last, i, m) ==
    IF i >= Len(skip_last)
    THEN [idx |-> i, modifiers |-> m]
    ELSE LET c == skip_last[i + 1]
             next_is_hyphen == i + 1 < Len(skip_last) /\ skip_last[i + 2] = "-"
         IN  IF c \in {"C", "A", "S"} /\ next_is_hyphen
             THEN DecodePrefixes_Assign(skip_last, i + 2, {PrefixModifier(c)})
             ELSE [idx |-> i, modifiers |-> m]

\* lines 69-92: the prefix loop; i is the 0-based idx, m the accumulator
RECURSIVE DecodePrefixes(_, _, _)
DecodePrefixes(skip_last, i, m) ==
    IF i >= Len(skip_last)
    THEN [idx |-> i, modifiers |-> m]
    ELSE LET c == skip_last[i + 1]
             next_is_hyphen == i + 1 < Len(skip_last) /\ skip_last[i + 2] = "-"
         IN  IF c \in {"C", "A", "S"} /\ next_is_hyphen
             THEN DecodePrefixes(skip_last, i + 2, m \cup {PrefixModifier(c)})
             ELSE [idx |-> i, modifiers |-> m]

\* lines 95-98: one more level of brackets is removed when the rest starts
\* with '<' (the caller has checked that rest is not empty)
Unwrap(rest) ==
    IF rest[1] = "<"
    THEN LET skip_first == SubSeq(rest, 2, Len(rest))
         IN  SubSeq(skip_first, 1, saturating_sub(Len(skip_first), 1))
    ELSE rest

\* lines 101-136: the named keys, as (pattern, KeyCode) pairs; Tab is the
\* one entry with a guard and is resolved in NamedKey
NamedKeys ==
    { <<(<<"B", "S">>), Backspace>>,
      <<(<<"B", "a", "c", "k", "s", "p", "a", "c", "e">>), Backspace>>,
      <<(<<"T", "a", "b">>), Tab>>,
      <<(<<"E", "n", "t", "e", "r">>), Enter>>,
      <<(<<"C", "R">>), Enter>>,
      <<(<<"R", "e", "t", "u", "r", "n">>), Enter>>,
      <<(<<"B", "s", "l", "a", "s", "h">>), Char("\\")>>,
      <<(<<"B", "a", "r">>), Char("|")>>,
      <<(<<"l", "t">>), Char("<")>>,
      <<(<<"g", "t">>), Char(">")>>,
      <<(<<"L", "e", "f", "t">>), Left>>,
      <<(<<"R", "i", "g", "h", "t">>), Right>>,
      <<(<<"U", "p">>), Up>>,
      <<(<<"D", "o", "w", "n">>), Down>>,
      <<(<<"H", "o", "m", "e">>), Home>>,
      <<(<<"E", "n", "d">>), End>>,
      <<(<<"P", "a", "g", "e", "U", "p">>), PageUp>>,
      <<(<<"P", "a", "g", "e", "D", "o", "w", "n">>), PageDown>>,
      <<(<<"D", "e", "l">>), Delete>>,
      <<(<<"I", "n", "s", "e", "r", "t">>), Insert>>,
      <<(<<"E", "s", "c">>), Esc>>,
      <<(<<"S", "p", "a", "c", "e">>), Char(" ")>>,
      <<(<<"F", "1">>), F("1")>>,
      <<(<<"F", "2">>), F("2")>>,
      <<(<<"F", "3">>), F("3")>>,
      <<(<<"F", "4">>), F("4")>>,
      <<(<<"F", "5">>), F("5")>>,
      <<(<<"F", "6">>), F("6")>>,
      <<(<<"F", "7">>), F("7")>>,
      <<(<<"F", "8">>), F("8")>>,
      <<(<<"F", "9">>), F("9")>>,
      <<(<<"F", "1", "0">>), F("10")>>,
      <<(<<"F", "1", "1">>), F("11")>>,
      <<(<<"F", "1", "2">>), F("12")>>,
      <<(<<>>), Null>> }

KeyNames == {e[1] : e \in NamedKeys}

\* NamedKey without the guarded Tab arm of line 103
NamedKey_NoBackTab(name, m) == (CHOOSE e \in NamedKeys : e[1] = name)[2]

\* lines 100-137: the table arms of the match; name \in KeyNames
NamedKey(name, m) ==
    LET code == (CHOOSE e \in NamedKeys : e[1] = name)[2]
    IN  IF code = Tab /\ SHIFT \in m THEN BackTab ELSE code

\* CharKey without the uppercase inference of lines 141-143
CharKey_NoShift(rest, m) ==
    IF Len(rest) # 1
    THEN [status |-> "err", key |-> Key(Null, NONE)]
    ELSE [status |-> "ok", key |-> Key(Char(rest[1]), m)]

\* lines 138-146: the `rest @ [c, ..]` arm
CharKey(rest, m) ==
    IF Len(rest) # 1
    THEN [status |-> "err", key |-> Key(Null, NONE)]
    ELSE [status |-> "ok",
          key |-> Key(Char(rest[1]),
                      IF is_uppercase(rest[1]) THEN m \cup {SHIFT} ELSE m)]

\* lines 61-149; status "panic" is an index out of bounds
chord_to_key(chars) ==
    IF Len(chars) = 0
    THEN [status |-> "panic", key |-> Key(Null, NONE)]
    ELSE LET skip_last == StripDelimiters(chars)
             p == DecodePrefixes(skip_last, 0, NONE)
             rest == SubSeq(skip_last, p.idx + 1, Len(skip_last))
         IN  IF Len(rest) = 0
             THEN [status |-> "panic", key |-> Key(Null, NONE)]
             ELSE LET name == Unwrap(rest)
                  IN  IF name \in KeyNames
                      THEN [status |-> "ok",
                            key |-> Key(NamedKey(name, p.modifiers), p.modifiers)]
                      ELSE CharKey(name, p.modifiers)

----------------------------------------------------------------------------
(* The notation strings handed to Parser::new                              *)

\* all strings over alphabet of length at most n
StringsUpTo(alphabet, n) == UNION {[1..k -> alphabet] : k \in 0..n}

BracketAlphabet == {"<", ">", "a"}
ShortAlphabet == {"<", ">", "-", "S", "a"}

\* the text "C-S-" of a sequence of prefix letters <<"C", "S">>
RECURSIVE PrefixText(_)
PrefixText(letters) ==
    IF letters = <<>> THEN <<>>
    ELSE <<Head(letters), "-">> \o PrefixText(Tail(letters))

ChordText(letters, base) == <<"<">> \o PrefixText(letters) \o base \o <<">">>

\* names of the table in the wrong case
LowercaseNames == {<<"t", "a", "b">>, <<"b", "s">>, <<"c", "r">>, <<"f", "1">>}

\* a chord with a named key, a single character or a name in the wrong
\* case, alone or before a plain 'a'
BaseKeys ==
    (KeyNames \ {<<>>}) \cup LowercaseNames
        \cup {<<"a">>, <<"A">>, <<"5">>, <<"-">>, <<"|">>}
TableInputs ==
    {ChordText(l, b) \o t : l \in StringsUpTo({"C", "A", "S"}, MaxPrefixes),
                            b \in BaseKeys, t \in {<<>>, <<"a">>}}

\* two chords with the same base key
PairBases == {<<"t">>, <<"A">>, <<"-">>, <<"T", "a", "b">>, <<"l", "t">>}
PairInputs ==
    {ChordText(l1, b) \o ChordText(l2, b) :
        l1 \in StringsUpTo({"C", "A", "S"}, MaxPairPrefixes),
        l2 \in StringsUpTo({"C", "A", "S"}, MaxPairPrefixes),
        b \in PairBases}

\* the inputs of tests::seq, seq2, seq3 and seq4
TestInputs ==
    { <<"<", "C", "-", "t", ">">>,
      <<"<", "C", "-", "t", ">", "<", "S", "-", "w", ">">>,
      <<"<", "C", "-", "t", ">", "<", "S", "-", "<", "l", "t", ">", ">">>,
      <<"<", "l", "t", ">">> }

Inputs ==
    StringsUpTo(BracketAlphabet, MaxLen) \cup StringsUpTo(ShortAlphabet, MaxShort)
        \cup TableInputs \cup PairInputs \cup TestInputs

----------------------------------------------------------------------------
(* Parser::new, Parser::parse and Parser::chord, one action per step       *)

Pending == [status |-> "pending", keys |-> <<>>, error |-> ""]
Ok(keys) == [status |-> "Ok", keys |-> keys, error |-> ""]
Err(e) == [status |-> "Err", keys |-> <<>>, error |-> e]
Panic(msg) == [status |-> "panic", keys |-> <<>>, error |-> msg]

NoKey == Key(Null, NONE)

\* chars[i] of the source
chars(i) == input[i + 1]

Init ==
    /\ input \in Inputs
    /\ idx = 0
    /\ start = 0
    /\ modifiers = NONE
    /\ seq = <<>>
    /\ key = NoKey
    /\ arm = "none"
    /\ open_count = 0
    /\ pc = "new"
    /\ result = Pending

\* New without the ensure! of line 23
New_NoEnsure ==
    /\ pc = "new"
    /\ pc' = "parse"
    /\ idx' = 0
    /\ start' = 0
    /\ UNCHANGED <<input, modifiers, seq, key, arm, open_count, result>>

\* lines 22-26
New ==
    /\ pc = "new"
    /\ IF Len(input) = 0
       THEN /\ pc' = "err"
            /\ result' = Err("EmptyInput")
            /\ UNCHANGED <<idx, start>>
       ELSE /\ pc' = "parse"
            /\ idx' = 0
            /\ start' = 0
            /\ UNCHANGED result
    /\ UNCHANGED <<input, modifiers, seq, key, arm, open_count>>

\* lines 28-32
ParseBegin ==
    /\ pc = "parse"
    /\ modifiers' = NONE
    /\ seq' = <<>>
    /\ pc' = "loop"
    /\ UNCHANGED <<input, idx, start, key, arm, open_count, result>>

\* lines 34-36 and 58
ParseEnd ==
    /\ pc = "loop"
    /\ idx >= Len(input)
    /\ pc' = "done"
    /\ result' = Ok(seq)
    /\ UNCHANGED <<input, idx, start, modifiers, seq, key, arm, open_count>>

\* lines 37 and 45-51
ParseChar ==
    /\ pc = "loop"
    /\ idx < Len(input)
    /\ chars(idx) # "<"
    /\ modifiers' = IF is_uppercase(chars(idx)) THEN modifiers \cup {SHIFT}
                    ELSE modifiers
    /\ key' = Key(Char(chars(idx)), modifiers')
    /\ arm' = "char"
    /\ pc' = "push"
    /\ UNCHANGED <<input, idx, start, seq, open_count, result>>

\* lines 37, 40-41 and 152-158
ChordBegin ==
    /\ pc = "loop"
    /\ idx < Len(input)
    /\ chars(idx) = "<"
    /\ open_count' = 1
    /\ start' = idx
    /\ idx' = idx + 1
    /\ IF idx' < Len(input)
       THEN pc' = "chord_loop" /\ UNCHANGED result
       ELSE pc' = "panic" /\ result' = Panic("unterminated chord")
    /\ UNCHANGED <<input, modifiers, seq, key, arm>>

\* lines 160-172, one iteration
ChordLoop ==
    /\ pc = "chord_loop"
    /\ idx' = idx + 1
    /\ IF idx' >= Len(input)
       THEN /\ pc' = "panic"
            /\ result' = Panic("index out of bounds")
            /\ UNCHANGED open_count
       ELSE /\ UNCHANGED result
            /\ IF chars(idx') = ">"
               THEN /\ open_count' = open_count - 1
                    /\ pc' = IF open_count' = 0 THEN "chord_end" ELSE "chord_loop"
               ELSE /\ open_count' = IF chars(idx') = "<" THEN open_count + 1
                                     ELSE open_count
                    /\ pc' = "chord_loop"
    /\ UNCHANGED <<input, start, modifiers, seq, key, arm>>

\* lines 174 and 42: the range start..=idx is resolved
ChordToKey ==
    /\ pc = "chord_end"
    /\ LET r == chord_to_key(SubSeq(input, start + 1, idx + 1))
       IN  CASE r.status = "ok" ->
                  /\ key' = r.key
                  /\ arm' = "chord"
                  /\ pc' = "push"
                  /\ UNCHANGED result
             [] r.status = "err" ->
                  /\ pc' = "err"
                  /\ result' = Err("InvalidKeyName")
                  /\ UNCHANGED <<key, arm>>
             [] r.status = "panic" ->
                  /\ pc' = "panic"
                  /\ result' = Panic("index out of bounds")
                  /\ UNCHANGED <<key, arm>>
    /\ UNCHANGED <<input, idx, start, modifiers, seq, open_count>>

\* lines 53-55
Push ==
    /\ pc = "push"
    /\ seq' = Append(seq, key)
    /\ idx' = idx + 1
    /\ pc' = "loop"
    /\ UNCHANGED <<input, start, modifiers, key, arm, open_count, result>>

Next ==
    \/ New
    \/ ParseBegin
    \/ ParseEnd
    \/ ParseChar
    \/ ChordBegin
    \/ ChordLoop
    \/ ChordToKey
    \/ Push

Spec == Init /\ [][Next]_vars

TypeOK ==
    /\ input \in Inputs
    /\ idx \in 0..(Len(input) + 1)
    /\ start \in 0..Len(input)
    /\ modifiers \subseteq {CONTROL, ALT, SHIFT}
    /\ pc \in {"new", "parse", "loop", "chord_loop", "chord_end", "push",
               "done", "err", "panic"}
    /\ arm \in {"none", "char", "chord"}
    /\ open_count \in 0..(Len(input) + 1)
    /\ result.status \in {"pending", "Ok", "Err", "panic"}

----------------------------------------------------------------------------
(* The notation as the specification reads it, independent of the scanner: *)
(* tokens by the nesting rule, a chord's written prefixes and its body.    *)

Terminal == pc \in {"done", "err", "panic"}

\* 0-based position of the '>' that brings the nesting counter, 1 at the
\* opening '<', back to zero when every bracket from position i on is
\* counted; -1 when the input ends first
RECURSIVE RefClose(_, _, _)
RefClose(s, i, count) ==
    IF i >= Len(s) THEN -1
    ELSE IF s[i + 1] = ">"
         THEN IF count = 1 THEN i ELSE RefClose(s, i + 1, count - 1)
         ELSE RefClose(s, i + 1, IF s[i + 1] = "<" THEN count + 1 ELSE count)

\* the tokens from 0-based position p on: [b, e] spans, e = -1 for a chord
\* that is not terminated (the last token then)
RECURSIVE RefTokens(_, _)
RefTokens(s, p) ==
    IF p >= Len(s) THEN <<>>
    ELSE IF s[p + 1] # "<"
         THEN <<[b |-> p, e |-> p]>> \o RefTokens(s, p + 1)
         ELSE LET e == RefClose(s, p + 1, 1)
              IN  IF e = -1 THEN <<[b |-> p, e |-> -1]>>
                  ELSE <<[b |-> p, e |-> e]>> \o RefTokens(s, e + 1)

TokenText(s, t) == SubSeq(s, t.b + 1, t.e + 1)
IsChord(s, t) == s[t.b + 1] = "<"

\* number of leading letter-hyphen prefixes of a chord text "<...>",
\* counted from the 1-based position i
RECURSIVE RefPrefixCount(_, _)
RefPrefixCount(text, i) ==
    IF i + 1 < Len(text) /\ text[i] \in {"C", "A", "S"} /\ text[i + 1] = "-"
    THEN 1 + RefPrefixCount(text, i + 2)
    ELSE 0

RefLetterModifier(l) == IF l = "C" THEN "CONTROL" ELSE IF l = "A" THEN "ALT" ELSE "SHIFT"

\* the modifiers a chord text writes as prefixes
RefWritten(text) ==
    {RefLetterModifier(text[2 * k]) : k \in 1..RefPrefixCount(text, 2)}

\* what is left of a chord text without delimiters and prefixes
RefBody(text) == SubSeq(text, 2 + 2 * RefPrefixCount(text, 2), Len(text) - 1)

\* the span start..=idx the scanner holds
HeldChord == SubSeq(input, start + 1, idx + 1)

----------------------------------------------------------------------------
(* Claims                                                                  *)

\* the modifiers a token's Key may carry on its own account: a plain
\* character's uppercase inference, a chord's written prefixes and the
\* uppercase inference of its resolved character
OwnModifiers ==
    IF arm = "char"
    THEN IF is_uppercase(chars(idx)) THEN {SHIFT} ELSE {}
    ELSE RefWritten(HeldChord) \cup
         (IF key.key.kind = "Char" /\ is_uppercase(key.key.arg) THEN {SHIFT} ELSE {})

\* C1: the modifier set of the Key produced for a token depends only on
\* that token: a plain character that is not uppercase yields no modifiers
\* whatever precedes it, an uppercase one yields SHIFT alone, and a chord
\* yields its own prefixes and its own uppercase inference.
C1_ModifiersPerToken == pc = "push" => key.modifiers = OwnModifiers

\* the 0-based position of the unterminated '<' of the input, or -1
UnterminatedAt ==
    LET toks == RefTokens(input, 0)
    IN  IF toks # <<>> /\ toks[Len(toks)].e = -1 THEN toks[Len(toks)].b ELSE -1

\* C2: when the input holds a '<' without a matching '>', parsing ends with
\* a recoverable error value, UnterminatedChord when the scan for the
\* closing '>' is what ended it, and never with an abort.
C2_UnterminatedChordIsError ==
    (Terminal /\ UnterminatedAt # -1) =>
        /\ result.status = "Err"
        /\ start = UnterminatedAt => result.error = "UnterminatedChord"

ShiftInferred(k) ==
    (k.key.kind = "Char" /\ is_uppercase(k.key.arg)) => SHIFT \in k.modifiers

\* C3: every Key of a parsed sequence whose identity is an uppercase letter
\* carries SHIFT, and an uppercase letter written as a plain character or
\* as the one-character body of a chord is kept as the identity.
C3_UppercaseHasShift ==
    /\ \A i \in 1..Len(seq) : ShiftInferred(seq[i])
    /\ \A i \in 1..Len(result.keys) : ShiftInferred(result.keys[i])
    /\ pc = "push" =>
        /\ ShiftInferred(key)
        /\ (arm = "char" /\ is_uppercase(chars(idx))) =>
               key.key = Char(chars(idx))
        /\ (arm = "chord" /\ Len(RefBody(HeldChord)) = 1
                /\ is_uppercase(RefBody(HeldChord)[1])) =>
               key = Key(Char(RefBody(HeldChord)[1]),
                         RefWritten(HeldChord) \cup {SHIFT})

\* "<C-A>" parsed to Char('A') with CONTROL and the inferred SHIFT
C3_Witness ==
    /\ pc = "done"
    /\ input = <<"<", "C", "-", "A", ">">>
    /\ result = Ok(<<Key(Char("A"), {CONTROL, SHIFT})>>)

\* C7: construction for the empty string fails with EmptyInput before any
\* scanning (no Key, cursor unmoved), and for a non-empty string it succeeds
\* with the cursor at 0.
C7_EmptyInputRejected ==
    /\ (Len(input) = 0 /\ pc # "new") =>
           /\ pc = "err"
           /\ result = Err("EmptyInput")
           /\ idx = 0
           /\ seq = <<>>
    /\ (Len(input) # 0 /\ pc # "new") => result.error # "EmptyInput"
    /\ pc = "parse" => (Len(input) # 0 /\ idx = 0 /\ result = Pending)

\* the empty string was rejected
C7_Witness == pc = "err" /\ Len(input) = 0 /\ result.error = "EmptyInput"

\* the named keys and their identities as the notation documents them
ClaimTable ==
    { <<(<<"B", "S">>), "Backspace", "">>,
      <<(<<"B", "a", "c", "k", "s", "p", "a", "c", "e">>), "Backspace", "">>,
      <<(<<"T", "a", "b">>), "Tab", "">>,
      <<(<<"E", "n", "t", "e", "r">>), "Enter", "">>,
      <<(<<"C", "R">>), "Enter", "">>,
      <<(<<"R", "e", "t", "u", "r", "n">>), "Enter", "">>,
      <<(<<"B", "s", "l", "a", "s", "h">>), "Char", "\\">>,
      <<(<<"B", "a", "r">>), "Char", "|">>,
      <<(<<"l", "t">>), "Char", "<">>,
      <<(<<"g", "t">>), "Char", ">">>,
      <<(<<"L", "e", "f", "t">>), "Left", "">>,
      <<(<<"R", "i", "g", "h", "t">>), "Right", "">>,
      <<(<<"U", "p">>), "Up", "">>,
      <<(<<"D", "o", "w", "n">>), "Down", "">>,
      <<(<<"H", "o", "m", "e">>), "Home", "">>,
      <<(<<"E", "n", "d">>), "End", "">>,
      <<(<<"P", "a", "g", "e", "U", "p">>), "PageUp", "">>,
      <<(<<"P", "a", "g", "e", "D", "o", "w", "n">>), "PageDown", "">>,
      <<(<<"D", "e", "l">>), "Delete", "">>,
      <<(<<"I", "n", "s", "e", "r", "t">>), "Insert", "">>,
      <<(<<"E", "s", "c">>), "Esc", "">>,
      <<(<<"S", "p", "a", "c", "e">>), "Char", " ">>,
      <<(<<"F", "1">>), "F", "1">>,
      <<(<<"F", "2">>), "F", "2">>,
      <<(<<"F", "3">>), "F", "3">>,
      <<(<<"F", "4">>), "F", "4">>,
      <<(<<"F", "5">>), "F", "5">>,
      <<(<<"F", "6">>), "F", "6">>,
      <<(<<"F", "7">>), "F", "7">>,
      <<(<<"F", "8">>), "F", "8">>,
      <<(<<"F", "9">>), "F", "9">>,
      <<(<<"F", "1", "0">>), "F", "10">>,
      <<(<<"F", "1", "1">>), "F", "11">>,
      <<(<<"F", "1", "2">>), "F", "12">> }

ClaimNames == {e[1] : e \in ClaimTable}

ClaimIdentity(name, written) ==
    LET e == CHOOSE x \in ClaimTable : x[1] = name
    IN  IF e[2] = "Tab" /\ "SHIFT" \in written
        THEN [kind |-> "BackTab", arg |-> ""]
        ELSE [kind |-> e[2], arg |-> e[3]]

\* the first token of the input is a terminated chord
FirstIsChord == Len(input) > 0 /\ input[1] = "<" /\ RefClose(input, 1, 1) # -1
FirstChord == SubSeq(input, 1, RefClose(input, 1, 1) + 1)

\* C4: a chord of modifier prefixes and a name of the named-key table
\* yields, as first Key, the identity documented for the name with exactly
\* the written modifiers; Tab becomes BackTab exactly when SHIFT is written;
\* names match case-sensitively.
C4_NamedKeyChord ==
    FirstIsChord =>
        LET name == RefBody(FirstChord)
            written == RefWritten(FirstChord)
            expected == [key |-> ClaimIdentity(name, written), modifiers |-> written]
        IN  /\ name \in ClaimNames =>
                /\ Len(seq) >= 1 => seq[1] = expected
                /\ (Terminal /\ Len(FirstChord) = Len(input)) =>
                       (result.status = "Ok" /\ result.keys = <<expected>>)
            /\ (Terminal /\ name \in LowercaseNames) =>
                   (result.status = "Err" /\ result.error = "InvalidKeyName")

\* "<C-S-Tab>" parsed to BackTab with CONTROL and SHIFT
C4_Witness ==
    /\ pc = "done"
    /\ input = <<"<", "C", "-", "S", "-", "T", "a", "b", ">">>
    /\ result.keys = <<Key(BackTab, {CONTROL, SHIFT})>>

\* the tokens of the input are all terminated and the chords among them
\* are resolved to the Key of a base key by the chord resolver
WellFormed ==
    LET toks == RefTokens(input, 0)
    IN  /\ toks # <<>>
        /\ \A i \in 1..Len(toks) :
              /\ toks[i].e # -1
              /\ IsChord(input, toks[i]) =>
                     /\ chord_to_key(TokenText(input, toks[i])).status = "ok"
                     /\ chord_to_key(TokenText(input, toks[i])).key.key.kind # "Null"

\* the identity a well-formed token denotes
Denoted(t) ==
    IF IsChord(input, t) THEN chord_to_key(TokenText(input, t)).key.key
    ELSE [kind |-> "Char", arg |-> input[t.b + 1]]

\* C5: an input with a chord whose text, after prefix stripping and the
\* unwrap, is a name that is neither a named key nor one character, all
\* tokens before it being resolvable, is answered with the InvalidKeyName
\* error and no Keys.
C5_InvalidKeyNameIsError ==
    LET toks == RefTokens(input, 0)
        resolved(i) == IF IsChord(input, toks[i]) /\ toks[i].e # -1
                       THEN chord_to_key(TokenText(input, toks[i])).status
                       ELSE IF toks[i].e # -1 THEN "ok" ELSE "open"
        name(i) == Unwrap(RefBody(TokenText(input, toks[i])))
    IN  (Terminal /\ \E k \in 1..Len(toks) :
                        /\ resolved(k) = "err"
                        /\ \A n \in 1..Len(name(k)) : name(k)[n] \notin {"<", ">"}
                        /\ \A j \in 1..(k - 1) : resolved(j) = "ok") =>
            (result.status = "Err" /\ result.error = "InvalidKeyName"
                /\ result.keys = <<>>)

\* C6: an input of n well-formed tokens is parsed to exactly n Keys, the
\* i-th with the identity the i-th token denotes, and the scan ends with
\* the cursor at the input length.
C6_OneKeyPerToken ==
    (Terminal /\ WellFormed) =>
        LET toks == RefTokens(input, 0)
        IN  /\ result.status = "Ok"
            /\ Len(result.keys) = Len(toks)
            /\ \A i \in 1..Len(toks) : result.keys[i].key = Denoted(toks[i])
            /\ idx = Len(input)

\* the chord scan has ended by running off the input
ChordScanAborted == pc = "panic" /\ idx >= Len(input)

\* C8: with the cursor on an opening '<' that has a matching '>', chord
\* boundary detection returns the span up to the first '>' at which the
\* nesting counter, counting every bracket after the '<', is back to zero,
\* and leaves the cursor there.
C8_ChordSpan ==
    /\ pc = "chord_end" => idx = RefClose(input, start + 1, 1)
    /\ ChordScanAborted => RefClose(input, start + 1, 1) = -1

\* both tokens of the input are chords of the same base key (a name of the
\* table or one character) whose prefixes name the same modifiers
SamePrefixSetPair ==
    LET toks == RefTokens(input, 0)
    IN  /\ Len(toks) = 2
        /\ \A i \in 1..2 : IsChord(input, toks[i]) /\ toks[i].e # -1
        /\ LET t1 == TokenText(input, toks[1])
               t2 == TokenText(input, toks[2])
           IN  /\ RefBody(t1) = RefBody(t2)
               /\ RefBody(t1) \in ClaimNames \/ Len(RefBody(t1)) = 1
               /\ RefWritten(t1) = RefWritten(t2)

\* C9: the decoded modifiers of a chord are exactly those its leading
\* prefixes name: two chords of one base key whose prefixes name the same
\* set, in any order and with repeats, resolve to equal Keys.
C9_PrefixSetDecides ==
    (Terminal /\ SamePrefixSetPair) =>
        /\ result.status = "Ok"
        /\ Len(result.keys) = 2
        /\ result.keys[1] = result.keys[2]
        /\ result.keys[1].modifiers =
               RefWritten(FirstChord) \cup
                   (IF Len(RefBody(FirstChord)) = 1
                          /\ is_uppercase(RefBody(FirstChord)[1])
                    THEN {SHIFT} ELSE {})

\* "<C-S-t><S-C-t>": both chords resolved to the same Key
C9_Witness ==
    /\ pc = "done"
    /\ input = <<"<", "C", "-", "S", "-", "t", ">", "<", "S", "-", "C", "-", "t", ">">>
    /\ result.keys = <<Key(Char("t"), {CONTROL, SHIFT}), Key(Char("t"), {CONTROL, SHIFT})>>

\* the chord resolver has just answered for the span start..=idx
ChordResolved ==
    \/ pc = "push" /\ arm = "chord"
    \/ pc = "err" /\ result.error = "InvalidKeyName"
    \/ pc = "panic" /\ idx < Len(input)

\* C10: a chord with nothing left once delimiters and prefixes are stripped
\* is resolved to the Null key with exactly the decoded modifiers.
C10_EmptyChordIsNull ==
    (ChordResolved /\ RefBody(HeldChord) = <<>>) =>
        (pc = "push" /\ key = Key(Null, RefWritten(HeldChord)))

====
